---- MODULE Spec2Model ----
(***************************************************************************)
(* Model of TellerCoursePicker (adviser/services/policy/course_picker.py): *)
(* the course-selection solver that parses weekly time patterns, builds a  *)
(* name-keyed conflict graph, runs two randomized greedy preference stages *)
(* and an exact backtracking stage, three trials per request.              *)
(*                                                                         *)
(* Course names are strings, so that the conflict-graph key                *)
(* name + "+" + name is the real concatenation.  Field and Format values   *)
(* and preference terms are sequences of characters, so that lower() and   *)
(* the substring test are computed.  A Dates value is the sequence of its  *)
(* ';'-separated entries, each entry the day token and the two clock       *)
(* fields <<hh, mm>> that split('.'), split('-') and split(':') yield.     *)
(* Every shuffle() is a choice among all permutations; every iteration of  *)
(* a Python set is a choice among all orders of its elements.              *)
(***************************************************************************)
EXTENDS Integers, Sequences, FiniteSets, TLC

VARIABLES
    request,              \* the caller's arguments of one request
    pc,                   \* position inside the request
    total_credits,        \* self.total_credits
    fields,               \* self.fields
    formats,              \* self.formats
    user_schedules,       \* self.user_schedules
    candidates,           \* self.candidates
    solution,             \* self.solution
    time_slots,           \* self.time_slots
    name2credit,          \* self.name2credit
    time_conflict_graph,  \* self.time_conflict_graph
    field_candidates,     \* select_courses: field_candidates
    format_candidates,    \* select_courses: format_candidates
    different_solutions,  \* select_courses: different_solutions
    trial,                \* select_courses: number of trials started
    stage,                \* _select_one_solution: preference stage running
    inter,                \* (inter_credits, inter_set_solution)
    union,                \* (union_credits, union_set_solution)
    greedy,               \* locals of _random_greedy_select
    result,               \* value returned by select_courses
    run,                  \* number of the request being served
    first_result,         \* value returned by the previous request, if any
    copy_solutions,       \* different_solutions of the second picker class
    self_stack,           \* self.stack
    calls                 \* searches running on the picker, one per caller

vars == <<request, pc, total_credits, fields, formats, user_schedules,
          candidates, solution, time_slots, name2credit, time_conflict_graph,
          field_candidates, format_candidates, different_solutions, trial,
          stage, inter, union, greedy, result, run, first_result,
          copy_solutions, self_stack, calls>>

None == "none"

(***************************************************************************)
(* Bounds and program constants                                            *)
(***************************************************************************)
MaxPool == 2

GreedyTrials == 10

SelectTrials == 3

DefaultTotalCredits == 100

MinInterTarget == 3

(***************************************************************************)
(* Generic helpers                                                         *)
(***************************************************************************)
Max(a, b) == IF a >= b THEN a ELSE b

Min(a, b) == IF a <= b THEN a ELSE b

Range(s) == {s[i] : i \in DOMAIN s}

\* every order a list can be left in by random.shuffle
Shuffles(s) ==
    IF Len(s) = 0 THEN {<<>>}
    ELSE {[i \in 1..Len(s) |-> s[p[i]]] : p \in Permutations(1..Len(s))}

RECURSIVE SetToSeq(_)
SetToSeq(S) ==
    IF S = {} THEN <<>>
    ELSE LET x == CHOOSE y \in S : TRUE IN <<x>> \o SetToSeq(S \ {x})

\* every order in which list(a_set) can enumerate a_set
Orders(S) == Shuffles(SetToSeq(S))

(***************************************************************************)
(* Text: lower(), strip() and the substring test on character sequences    *)
(***************************************************************************)
UpperLetters == <<"A","B","C","D","E","F","G","H","I","J","K","L","M",
                  "N","O","P","Q","R","S","T","U","V","W","X","Y","Z">>

LowerLetters == <<"a","b","c","d","e","f","g","h","i","j","k","l","m",
                  "n","o","p","q","r","s","t","u","v","w","x","y","z">>

LowerChar(c) ==
    IF \E i \in DOMAIN UpperLetters : UpperLetters[i] = c
    THEN LowerLetters[CHOOSE i \in DOMAIN UpperLetters : UpperLetters[i] = c]
    ELSE c

\* str.lower()
Lower(s) == [i \in 1..Len(s) |-> LowerChar(s[i])]

\* str.strip(), for the blank character
RECURSIVE Strip(_)
Strip(s) ==
    IF Len(s) = 0 THEN s
    ELSE IF Head(s) = " " THEN Strip(Tail(s))
    ELSE IF s[Len(s)] = " " THEN Strip(SubSeq(s, 1, Len(s) - 1))
    ELSE s

\* the Python test  t in s  on strings
Contains(s, t) ==
    \E k \in 0..(Len(s) - Len(t)) : SubSeq(s, k + 1, k + Len(t)) = t

(***************************************************************************)
(* Time parsing                                                            *)
(***************************************************************************)
Days == << <<"m","o","n">>, <<"t","u","e">>, <<"w","e","d">>,
           <<"t","h","u","r">>, <<"f","r","i">>, <<"s","a","t">>,
           <<"s","u","n">> >>

\* variant: a day is shorter than the clock times it holds
OneDayTenHours == 10 * 60

\* one_day = 24*3600
OneDay == 24 * 3600

\* _build_day2min_mapper
BuildDay2MinMapper == [d \in Range(Days) |->
    (CHOOSE i \in DOMAIN Days : Days[i] = d) * OneDay - OneDay]

day2min == BuildDay2MinMapper

\* _clock2min, on the <<hh, mm>> that split(":") and int() yield
Clock2Min(clock_time) == clock_time[1] * 60 + clock_time[2]

\* hh, mm = clock_time.split(":") raises unless there are two fields
Clock2MinRaises(clock_time) == Len(clock_time) # 2

\* the day token of one entry as _change_time_format reads it
DayOf(date) == Strip(Lower(Strip(date.day)))

\* variant: a day token that is not a key counts as Monday
Day2MinLookupDefault(day) ==
    IF day \in DOMAIN day2min THEN [ok |-> TRUE, val |-> day2min[day]]
    ELSE [ok |-> TRUE, val |-> 0]

\* self.day2min[day]: the offset, or the KeyError of a missing key
Day2MinLookup(day) ==
    IF day \in DOMAIN day2min THEN [ok |-> TRUE, val |-> day2min[day]]
    ELSE [ok |-> FALSE, val |-> 0]

\* one turn of the loop of _change_time_format raises: the unpacking of
\* date.split('.'), the day lookup, or one of the two _clock2min calls
DateRaises(date) ==
    \/ "day" \notin DOMAIN date
    \/ ~Day2MinLookup(DayOf(date)).ok
    \/ Clock2MinRaises(date.st)
    \/ Clock2MinRaises(date.en)

\* _change_time_format raises on this list of entries
ChangeTimeFormatRaises(dates) ==
    \E i \in DOMAIN dates : DateRaises(dates[i])

\* the entries _change_time_format has handled when it raises
HandledBeforeRaise(dates) ==
    SubSeq(dates, 1,
           (CHOOSE i \in DOMAIN dates :
               /\ DateRaises(dates[i])
               /\ \A j \in 1..(i - 1) : ~DateRaises(dates[j])) - 1)

\* _change_time_format: the returned time_slot_in_minutes
ChangeTimeFormat(dates) ==
    [i \in 1..Len(dates) |->
        LET min_offset == Day2MinLookup(DayOf(dates[i])).val
        IN  <<Clock2Min(dates[i].st) + min_offset,
              Clock2Min(dates[i].en) + min_offset>>]

\* _change_time_format: what it appends to self.time_slots[name]
TimeSlotsOf(dates) ==
    [i \in 1..Len(dates) |->
        <<DayOf(dates[i]), <<dates[i].st, dates[i].en>>,
          ChangeTimeFormat(dates)[i][1], ChangeTimeFormat(dates)[i][2]>>]

(***************************************************************************)
(* Overlap and the conflict graph                                          *)
(***************************************************************************)
\* variant: intervals that only touch count as overlapping
HasOverlapTouching(times_a, times_b) ==
    \E i \in DOMAIN times_a : \E j \in DOMAIN times_b :
        Min(times_a[i][2], times_b[j][2])
        - Max(times_a[i][1], times_b[j][1]) >= 0

\* _has_overlap
HasOverlap(times_a, times_b) ==
    \E i \in DOMAIN times_a : \E j \in DOMAIN times_b :
        Max(0, Min(times_a[i][2], times_b[j][2])
               - Max(times_a[i][1], times_b[j][1])) > 0

\* name_bind = pre_name + "+" + cur_name
NameBind(pre_name, cur_name) == pre_name \o "+" \o cur_name

\* variant: a pair of courses is stored once, under the key of the first
\* course in the list followed by the second
BuildGraphOneWay(cands) ==
    LET P == {p \in (DOMAIN cands) \X (DOMAIN cands) : p[1] < p[2]}
    IN  [k \in {NameBind(cands[p[1]].Name, cands[p[2]].Name) : p \in P} |->
            \E p \in P :
                /\ NameBind(cands[p[1]].Name, cands[p[2]].Name) = k
                /\ HasOverlap(cands[p[1]].Dates, cands[p[2]].Dates)]

\* _build_time_conflict_relation_graph: the dictionary left by the two
\* nested loops; a key written twice keeps the value written last
BuildTimeConflictRelationGraph(cands) ==
    LET P == {p \in (DOMAIN cands) \X (DOMAIN cands) :
                 cands[p[1]].Name # cands[p[2]].Name}
        Key(p) == NameBind(cands[p[1]].Name, cands[p[2]].Name)
        NotAfter(q, p) == q[1] < p[1] \/ (q[1] = p[1] /\ q[2] <= p[2])
        Last(k) == CHOOSE p \in P :
                      Key(p) = k /\ \A q \in P : Key(q) = k => NotAfter(q, p)
    IN  [k \in {Key(p) : p \in P} |->
            HasOverlap(cands[Last(k)[1]].Dates, cands[Last(k)[2]].Dates)]

\* variant: the overlap with the user's schedule is not tested
RemoveUserConflictsKeepAll(cands, schedules) == cands

\* _remove_user_conflicts
RemoveUserConflicts(cands, schedules) ==
    LET Keep(c) == ~HasOverlap(c.Dates, schedules)
    IN  SelectSeq(cands, Keep)

\* variant: the term is compared as the user wrote it
FilterCoursesTermAsIs(cands, slot, constraints) ==
    IF constraints = {} THEN {}
    ELSE {cands[i].Name : i \in
            {i \in DOMAIN cands :
                \E target \in constraints :
                    Contains(Lower(cands[i][slot]), target)}}

\* _fake_query of the second picker class (policy_handcrafted.py): the
\* term is searched as the caller wrote it
FakeQuery(cands, slot, targets) ==
    IF targets = {} THEN {}
    ELSE {cands[i].Name : i \in
            {i \in DOMAIN cands :
                \E target \in targets :
                    Contains(Lower(cands[i][slot]), target)}}

\* _filter_courses
FilterCourses(cands, slot, constraints) ==
    IF constraints = {} THEN {}
    ELSE {cands[i].Name : i \in
            {i \in DOMAIN cands :
                \E target \in constraints :
                    Contains(Lower(cands[i][slot]), Lower(target))}}

(***************************************************************************)
(* Greedy selection                                                        *)
(***************************************************************************)
\* _has_time_conflicts_for_random: the loop runs over every earlier
\* position of the shuffled list
HasTimeConflictsForRandom(graph, cands, course_id) ==
    \E pid \in 1..(course_id - 1) :
        /\ cands[pid].Name # cands[course_id].Name
        /\ graph[NameBind(cands[pid].Name, cands[course_id].Name)]

\* variant: a course that does not fit is passed over and the scan goes on
RECURSIVE GreedyScanFull(_, _, _, _, _, _)
GreedyScanFull(graph, cands, course_id, total, solutions, target_credits) ==
    IF course_id > Len(cands) THEN <<total, solutions>>
    ELSE IF HasTimeConflictsForRandom(graph, cands, course_id)
            \/ total + cands[course_id].Credit > target_credits
    THEN GreedyScanFull(graph, cands, course_id + 1, total, solutions,
                        target_credits)
    ELSE GreedyScanFull(graph, cands, course_id + 1,
                        total + cands[course_id].Credit,
                        Append(solutions, cands[course_id]), target_credits)

\* the inner loop of _random_greedy_select over one shuffled order:
\* <<total_credits, solutions>> when the loop ends
RECURSIVE GreedyScan(_, _, _, _, _, _)
GreedyScan(graph, cands, course_id, total, solutions, target_credits) ==
    IF course_id > Len(cands) THEN <<total, solutions>>
    ELSE IF HasTimeConflictsForRandom(graph, cands, course_id)
    THEN GreedyScan(graph, cands, course_id + 1, total, solutions,
                    target_credits)
    ELSE IF total + cands[course_id].Credit > target_credits
    THEN <<total, solutions>>
    ELSE GreedyScan(graph, cands, course_id + 1,
                    total + cands[course_id].Credit,
                    Append(solutions, cands[course_id]), target_credits)

(***************************************************************************)
(* Backtracking                                                            *)
(***************************************************************************)
\* _has_time_conflicts: stack already holds course_id itself
HasTimeConflicts(graph, cands, stack, course_id) ==
    LET Bind(k) == NameBind(cands[stack[k]].Name, cands[course_id].Name)
        Relevant == {k \in DOMAIN stack :
                        cands[stack[k]].Name # cands[course_id].Name}
        \* first position of the loop at which it returns
        Stops == {k \in Relevant :
                    Bind(k) \notin DOMAIN graph \/ graph[Bind(k)]}
    IN  IF Stops = {} THEN FALSE
        ELSE LET k == CHOOSE m \in Stops : \A n \in Stops : m <= n
             IN  Bind(k) \in DOMAIN graph

\* variant: the search stops as soon as the target is reached or passed
MeetsTotalAtLeast(new_credit, total) == new_credit >= total

\* the test  new_credit == total_credits  of option 1
MeetsTotal(new_credit, total) == new_credit = total

\* variant: a conflicting course is left out and the search goes on
RECURSIVE BruteForceSkipConflicting(_, _, _, _, _, _)
BruteForceSkipConflicting(graph, cands, stack, cur_credits, cur_id, total) ==
    IF cur_id > Len(cands) THEN [status |-> FALSE, solution |-> <<>>]
    ELSE IF HasTimeConflicts(graph, cands, Append(stack, cur_id), cur_id)
    THEN BruteForceSkipConflicting(graph, cands, stack, cur_credits,
                                   cur_id + 1, total)
    ELSE LET new_credit == cur_credits + cands[cur_id].Credit
             name == cands[cur_id].Name
         IN  IF MeetsTotal(new_credit, total)
             THEN [status |-> TRUE, solution |-> <<name>>]
             ELSE LET incl == BruteForceSkipConflicting(graph, cands,
                                  Append(stack, cur_id), new_credit,
                                  cur_id + 1, total)
                  IN  IF incl.status
                      THEN [status |-> TRUE,
                            solution |-> Append(incl.solution, name)]
                      ELSE BruteForceSkipConflicting(graph, cands, stack,
                               cur_credits, cur_id + 1, total)

\* _brute_force_meet_total_credits; cur_id counts from 1 here.  The value
\* is [status, solution]: the returned flag and the names appended to
\* self.solution by this call and the calls below it.  self.stack is the
\* same list before and after the call.
RECURSIVE BruteForceMeetTotalCredits(_, _, _, _, _, _)
BruteForceMeetTotalCredits(graph, cands, stack, cur_credits, cur_id, total) ==
    IF cur_id > Len(cands) THEN [status |-> FALSE, solution |-> <<>>]
    ELSE IF HasTimeConflicts(graph, cands, Append(stack, cur_id), cur_id)
    THEN [status |-> FALSE, solution |-> <<>>]
    ELSE LET new_credit == cur_credits + cands[cur_id].Credit
             name == cands[cur_id].Name
         IN  IF MeetsTotal(new_credit, total)
             THEN [status |-> TRUE, solution |-> <<name>>]
             ELSE LET incl == BruteForceMeetTotalCredits(graph, cands,
                                  Append(stack, cur_id), new_credit,
                                  cur_id + 1, total)
                  IN  IF incl.status
                      THEN [status |-> TRUE,
                            solution |-> Append(incl.solution, name)]
                      ELSE BruteForceMeetTotalCredits(graph, cands, stack,
                               cur_credits, cur_id + 1, total)

(***************************************************************************)
(* Requests                                                                *)
(***************************************************************************)
Entry(day, st, en) == [day |-> day, st |-> st, en |-> en]

\* an entry without the '.' between day and duration: split('.') yields
\* the whole text as its only part
Unsplit(text) == [whole |-> text]

Course(name, credit, field, format, dates) ==
    [Name |-> name, Credit |-> credit, Field |-> field, Format |-> format,
     Dates |-> dates]

Mon == <<"m","o","n">>
Tue == <<"T","u","e">>
Wed == <<"w","e","d">>
Thur == <<"t","h","u","r">>

AI == <<"A","I">>
Lecture == <<"L","e","c","t","u","r","e">>

CS101 == Course("CS101", 3, <<>>, <<>>, <<Entry(Mon, <<9,0>>, <<10,30>>)>>)
CS102 == Course("CS102", 3, <<>>, <<>>, <<Entry(Wed, <<9,0>>, <<10,30>>)>>)
CS103 == Course("CS103", 6, <<>>, <<>>, <<Entry(Mon, <<9,0>>, <<10,30>>)>>)
CS104 == Course("CS104", 3, AI, Lecture, <<Entry(Tue, <<9,0>>, <<10,30>>)>>)
CS105 == Course("CS105", 3, AI, <<>>, <<Entry(Thur, <<9,0>>, <<10,30>>)>>)
\* an AI seminar that overlaps CS104
ML1 == Course("ML1", 3, <<"a","i">>, <<>>, <<Entry(Tue, <<10,0>>, <<11,30>>)>>)
\* an AI course that overlaps ML1 and not CS104
CS106 == Course("CS106", 3, AI, <<>>, <<Entry(Tue, <<11,0>>, <<12,0>>)>>)
\* an AI course of six credits that overlaps no other course
CS107 == Course("CS107", 6, AI, <<>>, <<Entry(<<"f","r","i">>, <<9,0>>, <<10,30>>)>>)
\* an AI course of six credits that overlaps ML1 and not CS104
CS108 == Course("CS108", 6, AI, <<>>, <<Entry(Tue, <<11,0>>, <<12,0>>)>>)
\* two small AI lectures that do not overlap
Tut1 == Course("Tut1", 1, AI, Lecture, <<Entry(Mon, <<14,0>>, <<15,0>>)>>)
Tut2 == Course("Tut2", 2, AI, Lecture, <<Entry(Wed, <<14,0>>, <<15,0>>)>>)
\* three courses whose names contain the key delimiter
PlusX == Course("x", 3, <<>>, <<>>, <<Entry(Mon, <<9,0>>, <<10,30>>)>>)
PlusYX == Course("y+x", 3, <<>>, <<>>, <<Entry(Mon, <<10,0>>, <<11,0>>)>>)
PlusXY == Course("x+y", 3, <<>>, <<>>, <<Entry(Wed, <<9,0>>, <<10,30>>)>>)

\* three courses with one malformed entry each: no separator, a day
\* token that is no key of day2min, a clock without ':'
NoDot == Course("NoDot", 3, <<>>, <<>>,
                <<Entry(Wed, <<9,0>>, <<10,30>>),
                  Unsplit(<<"t","u","e"," ","9",":","0","0">>)>>)
BadDay == Course("BadDay", 3, <<>>, <<>>,
                 <<Entry(<<"m","o","n","d","a","y">>, <<9,0>>, <<10,30>>)>>)
BadClock == Course("BadClock", 3, <<>>, <<>>,
                   <<Entry(Mon, <<9>>, <<10,30>>)>>)

Catalog == <<CS101, CS102, CS103, CS104, CS105, ML1>>

Scenario1Pool == <<CS101, CS102, CS103>>
Scenario3Pool == <<CS101, CS102, CS103, CS104, CS105>>
PlusPool == <<PlusX, PlusYX, PlusXY>>
MixedPool == <<CS102, CS104, ML1>>
\* ML1 overlaps both other courses, which do not overlap each other
ChainPool == <<CS104, ML1, CS106>>

\* ML1 overlaps CS104 and CS108, which do not overlap each other; CS105
\* overlaps none of them
SkipBreakPool == <<CS104, ML1, CS108, CS105>>

\* the sub-lists of Catalog with at most MaxPool courses
SubLists ==
    LET Pick(S) == LET InS(c) == \E i \in S : Catalog[i] = c
                   IN  SelectSeq(Catalog, InS)
    IN  {Pick(S) : S \in {T \in SUBSET DOMAIN Catalog :
                              Cardinality(T) <= MaxPool}}

\* pools with a malformed entry, after and before a well-formed course
BadPools == {<<CS101, NoDot>>, <<CS102, BadDay>>, <<BadClock, CS101>>}

Pools ==
    SubLists \cup {Scenario1Pool, PlusPool, MixedPool, ChainPool} \cup BadPools

Targets == {3, 5, 6}

FieldChoices == {{}, {AI}}

FormatChoices == {{}, {<<"l","e","c","t","u","r","e">>}}

BusyChoices ==
    {<<>>, <<Entry(<<"M","o","n">>, <<9,0>>, <<10,30>>)>>,
     <<Entry(Wed, <<9,0>>, <<10,0>>), Entry(Tue, <<9>>, <<10>>)>>}

Scenario1Request ==
    [raw_candidates |-> Scenario1Pool, total_credits |-> 6, fields |-> {},
     formats |-> {}, user_schedules |-> <<>>]

Scenario3Request ==
    [raw_candidates |-> Scenario3Pool, total_credits |-> 6, fields |-> {AI},
     formats |-> {}, user_schedules |-> <<>>]

\* a busy schedule that removes a course of the preferred field
BusyFieldRequest ==
    [raw_candidates |-> <<ML1, CS105>>, total_credits |-> 3,
     fields |-> {AI}, formats |-> {},
     user_schedules |-> <<Entry(Thur, <<9,0>>, <<10,30>>)>>]

\* preferred courses of which one alone fills the target
BreakRequest ==
    [raw_candidates |-> <<CS104, CS107, CS105>>, total_credits |-> 6,
     fields |-> {AI}, formats |-> {}, user_schedules |-> <<>>]

\* an odd target whose half is not a whole number, with a course that
\* meets both preferences
OddRequest ==
    [raw_candidates |-> <<CS104, CS105>>, total_credits |-> 7,
     fields |-> {AI}, formats |-> {<<"l","e","c","t","u","r","e">>},
     user_schedules |-> <<>>]

\* a target below the smallest target of the first preference stage, with
\* courses that meet both preferences
SmallRequest ==
    [raw_candidates |-> <<Tut1, Tut2>>, total_credits |-> 2,
     fields |-> {AI}, formats |-> {<<"l","e","c","t","u","r","e">>},
     user_schedules |-> <<>>]

\* what the caller hands over: credits already <= target, names unique
Requests ==
    {r \in [raw_candidates : Pools, total_credits : Targets,
            fields : FieldChoices, formats : FormatChoices,
            user_schedules : BusyChoices] :
        \A i \in DOMAIN r.raw_candidates :
            r.raw_candidates[i].Credit <= r.total_credits}
    \cup {Scenario3Request, BusyFieldRequest, BreakRequest, OddRequest,
          SmallRequest}

(***************************************************************************)
(* State machine                                                           *)
(***************************************************************************)
NoGreedy == [candidates |-> <<>>, target_credits |-> 0, i |-> 0,
             best_credits |-> 0, best_solutions |-> <<>>]

\* clear(), as __init__ and the caller run it before a request
Cleared ==
    /\ total_credits = DefaultTotalCredits
    /\ candidates = <<>>
    /\ solution = <<>>
    /\ time_slots = <<>>
    /\ name2credit = <<>>
    /\ user_schedules = <<>>
    /\ formats = {}
    /\ fields = {}

\* the picker after construction, before any request has reached it
Constructed ==
    /\ Cleared
    /\ time_conflict_graph = <<>>
    /\ field_candidates = {}
    /\ format_candidates = {}
    /\ different_solutions = <<>>
    /\ trial = 0
    /\ stage = None
    /\ inter = <<0, {}>>
    /\ union = <<0, {}>>
    /\ greedy = NoGreedy
    /\ result = None
    /\ run = 1
    /\ first_result = None
    /\ copy_solutions = <<>>
    /\ self_stack = <<>>
    /\ calls = <<>>

Init ==
    /\ request \in Requests
    /\ pc = "idle"
    /\ Constructed

\* update_total_credits, update_user_schedules, update_fields,
\* update_formats
UpdateRequest ==
    /\ pc = "idle"
    /\ total_credits' = request.total_credits
    /\ user_schedules' = request.user_schedules
    /\ fields' = request.fields
    /\ formats' = request.formats
    /\ pc' = "configured"
    /\ UNCHANGED <<copy_solutions, self_stack, calls>>
    /\ UNCHANGED <<request, candidates, solution, time_slots, name2credit,
                   time_conflict_graph, field_candidates, format_candidates,
                   different_solutions, trial, stage, inter, union, greedy,
                   result, run, first_result>>

\* the first candidate whose Dates make _change_time_format raise, or
\* Len + 1 when none does
FirstRaising(raw) ==
    CHOOSE f \in 1..(Len(raw) + 1) :
        /\ f <= Len(raw) => ChangeTimeFormatRaises(raw[f].Dates)
        /\ \A i \in 1..(f - 1) : ~ChangeTimeFormatRaises(raw[i].Dates)

\* the parsing loops of select_courses raise
SelectCoursesRaises ==
    \/ FirstRaising(request.raw_candidates) <= Len(request.raw_candidates)
    \/ ChangeTimeFormatRaises(user_schedules)

\* select_courses when _change_time_format raises: the exception leaves
\* through select_courses to the caller, with what the loops had written
SelectCoursesRaise ==
    /\ pc = "configured"
    /\ SelectCoursesRaises
    /\ LET raw == request.raw_candidates
           f == FirstRaising(raw)
           done == {raw[i].Name : i \in 1..(f - 1)}
           Raw(n) == raw[CHOOSE i \in DOMAIN raw : raw[i].Name = n]
           part == IF f <= Len(raw) THEN HandledBeforeRaise(raw[f].Dates)
                   ELSE HandledBeforeRaise(user_schedules)
           partname == IF f <= Len(raw) THEN raw[f].Name ELSE "User"
       IN  /\ candidates' =
                [i \in DOMAIN raw |->
                    IF i < f
                    THEN [raw[i] EXCEPT !.Dates = ChangeTimeFormat(@)]
                    ELSE raw[i]]
           /\ name2credit' = [n \in done |-> Raw(n).Credit]
           /\ time_slots' =
                [n \in done \cup (IF Len(part) > 0 THEN {partname} ELSE {})
                   |-> IF n \in done THEN TimeSlotsOf(Raw(n).Dates)
                       ELSE TimeSlotsOf(part)]
    /\ pc' = "error"
    /\ UNCHANGED <<copy_solutions, self_stack, calls>>
    /\ UNCHANGED <<request, total_credits, fields, formats, user_schedules,
                   solution, time_conflict_graph, field_candidates,
                   format_candidates, different_solutions, trial, stage,
                   inter, union, greedy, result, run, first_result>>

\* select_courses up to the trial loop: parse, drop the candidates that
\* overlap the user's schedule, build the graph, filter by preference
SelectCoursesPrepare ==
    /\ pc = "configured"
    /\ ~SelectCoursesRaises
    /\ LET raw == request.raw_candidates
           parsed == [i \in DOMAIN raw |->
                        [raw[i] EXCEPT !.Dates = ChangeTimeFormat(@)]]
           schedules == IF Len(user_schedules) > 0
                        THEN ChangeTimeFormat(user_schedules)
                        ELSE user_schedules
           kept == RemoveUserConflicts(parsed, schedules)
           names == {raw[i].Name : i \in DOMAIN raw}
           Raw(n) == raw[CHOOSE i \in DOMAIN raw : raw[i].Name = n]
       IN  /\ time_slots' =
                [n \in names \cup (IF Len(user_schedules) > 0
                                   THEN {"User"} ELSE {}) |->
                    IF n \in names THEN TimeSlotsOf(Raw(n).Dates)
                    ELSE TimeSlotsOf(user_schedules)]
           /\ name2credit' = [n \in names |-> Raw(n).Credit]
           /\ user_schedules' = schedules
           /\ candidates' = kept
           /\ time_conflict_graph' = BuildTimeConflictRelationGraph(kept)
           /\ field_candidates' = FilterCourses(kept, "Field", fields)
           /\ format_candidates' = FilterCourses(kept, "Format", formats)
    /\ different_solutions' = <<>>
    /\ copy_solutions' = <<>>
    /\ trial' = 0
    /\ pc' = "trial"
    /\ UNCHANGED <<self_stack, calls>>
    /\ UNCHANGED <<request, total_credits, fields, formats, solution, stage,
                   inter, union, greedy, result, run, first_result>>

\* one turn of the trial loop: shuffle(self.candidates) and the entry of
\* _select_one_solution
BeginTrial ==
    /\ pc = "trial"
    /\ trial < SelectTrials
    /\ \E order \in Shuffles(candidates) : candidates' = order
    /\ stage' = "A"
    /\ inter' = <<0, {}>>
    /\ union' = <<0, {}>>
    /\ pc' = "search"
    /\ UNCHANGED <<copy_solutions, self_stack, calls>>
    /\ UNCHANGED <<request, total_credits, fields, formats, user_schedules,
                   solution, time_slots, name2credit, time_conflict_graph,
                   field_candidates, format_candidates, different_solutions,
                   trial, greedy, result, run, first_result>>

\* the names and the target that _select_one_solution hands to
\* _search_for_preference in the running stage
StageNames ==
    IF stage = "A" THEN field_candidates \cap format_candidates
    ELSE (field_candidates \cup format_candidates) \ inter[2]

\* variant: both preference stages approximate half of the credits
StageTargetHalf == Max(MinInterTarget, total_credits \div 2)

\* variant: the half of the credits is rounded up
StageTargetRoundUp ==
    IF stage = "A" THEN Max(MinInterTarget, (total_credits + 1) \div 2)
    ELSE Max(0, total_credits - inter[1])

\* the target_credits argument of the stage's _search_for_preference call
StageTarget ==
    IF stage = "A" THEN Max(MinInterTarget, total_credits \div 2)
    ELSE Max(0, total_credits - inter[1])

\* the stage's (credits, names) is known: go on to the next stage
StageDone(res) ==
    /\ inter' = IF stage = "A" THEN res ELSE inter
    /\ union' = IF stage = "B" THEN res ELSE union
    /\ stage' = IF stage = "A" THEN "B" ELSE None
    /\ pc' = IF stage = "A" THEN "search" ELSE "complete"

\* _search_for_preference up to the call of _random_greedy_select
SearchForPreference ==
    /\ pc = "search"
    /\ IF StageNames = {}
       THEN /\ StageDone(<<0, {}>>)
            /\ UNCHANGED greedy
       ELSE LET InNames(c) == c.Name \in StageNames
            IN  /\ greedy' = [candidates |-> SelectSeq(candidates, InNames),
                              target_credits |-> StageTarget, i |-> 0,
                              best_credits |-> 0, best_solutions |-> <<>>]
                /\ pc' = "greedy"
                /\ UNCHANGED <<stage, inter, union>>
    /\ UNCHANGED <<copy_solutions, self_stack, calls>>
    /\ UNCHANGED <<request, total_credits, fields, formats, user_schedules,
                   candidates, solution, time_slots, name2credit,
                   time_conflict_graph, field_candidates, format_candidates,
                   different_solutions, trial, result, run, first_result>>

\* variant: a trial that only equals the best sum replaces it
ReplacesBestOnTie(trial_credits, best_credits) == trial_credits >= best_credits

\* the test  total_credits > best_credits  after a trial
ReplacesBest(trial_credits, best_credits) == trial_credits > best_credits

\* the list handed to _random_greedy_select is self.candidates itself,
\* unless the call comes from _search_for_preference, which hands over a
\* new list (line 137)
GreedyOnCandidates == stage = None

\* one turn of the loop of _random_greedy_select; shuffle reorders the
\* list of the call in place
GreedyTrial ==
    /\ pc = "greedy"
    /\ greedy.i < GreedyTrials
    /\ \E order \in Shuffles(greedy.candidates) :
          LET scan == GreedyScan(time_conflict_graph, order, 1, 0, <<>>,
                                 greedy.target_credits)
              better == ReplacesBest(scan[1], greedy.best_credits)
          IN  greedy' = [greedy EXCEPT
                  !.candidates = order,
                  !.i = @ + 1,
                  !.best_credits = IF better THEN scan[1] ELSE @,
                  !.best_solutions = IF better THEN scan[2] ELSE @]
    /\ candidates' = IF GreedyOnCandidates THEN greedy'.candidates
                     ELSE candidates
    /\ UNCHANGED <<copy_solutions, self_stack, calls>>
    /\ UNCHANGED <<request, pc, total_credits, fields, formats,
                   user_schedules, solution, time_slots,
                   name2credit, time_conflict_graph, field_candidates,
                   format_candidates, different_solutions, trial, stage,
                   inter, union, result, run, first_result>>

\* the return of _random_greedy_select
GreedyReturn ==
    /\ pc = "greedy"
    /\ greedy.i = GreedyTrials
    /\ StageDone(<<greedy.best_credits,
                   {greedy.best_solutions[k].Name :
                       k \in DOMAIN greedy.best_solutions}>>)
    /\ greedy' = NoGreedy
    /\ UNCHANGED <<copy_solutions, self_stack, calls>>
    /\ UNCHANGED <<request, total_credits, fields, formats, user_schedules,
                   candidates, solution, time_slots, name2credit,
                   time_conflict_graph, field_candidates, format_candidates,
                   different_solutions, trial, result, run, first_result>>

\* variant: the status of the backtracking call is not tested
AssembleSolutionPartial(remain_credits, a, b, bf) == a \o b \o bf.solution

\* variant: the solution of a failed trial is appended as well
KeepSolutionAlways(solutions, sol) == Append(solutions, sol)

\* variant: a successful backtracking call returns its own names only
AssembleSolutionStageCOnly(remain_credits, a, b, bf) ==
    IF remain_credits = 0 THEN a \o b
    ELSE IF bf.status THEN bf.solution
    ELSE <<>>

\* self.solution as _select_one_solution returns it; a and b are
\* list(inter_set_solution) and list(union_set_solution), bf the outcome
\* of the backtracking call
AssembleSolution(remain_credits, a, b, bf) ==
    IF remain_credits = 0 THEN a \o b
    ELSE IF bf.status THEN a \o b \o bf.solution
    ELSE <<>>

\* the loop body of select_courses of the second picker class: every
\* solution is appended, the empty one of a failed trial as well
CopyKeepSolution(solutions, sol) == Append(solutions, sol)

\* the second picker class differs from the first in its filter, in the
\* loop body and in the end of select_courses.  On the same request and
\* the same shuffles it goes through the same passes exactly when its
\* filter, applied to the candidates left by the busy filtering, finds
\* the names that the filter of the first class has found
CopyInStep ==
    LET raw == request.raw_candidates
        parsed == [i \in DOMAIN raw |->
                     [raw[i] EXCEPT !.Dates = ChangeTimeFormat(@)]]
        kept == RemoveUserConflicts(parsed, user_schedules)
    IN  /\ FakeQuery(kept, "Field", fields) = field_candidates
        /\ FakeQuery(kept, "Format", formats) = format_candidates

\* the end of select_courses of the second picker class: the distinct
\* solutions, or nothing when the empty solution is the only one
CopySelectCourses(solutions) ==
    IF Range(solutions) = {<<>>} THEN {} ELSE Range(solutions)

\* the loop body of select_courses after the call: a failed trial is
\* skipped, any other solution is appended
KeepSolution(solutions, sol) ==
    IF Len(sol) = 0 THEN solutions ELSE Append(solutions, sol)

\* the rest of _select_one_solution from remain_credits on, and the rest
\* of the loop body of select_courses
CompleteSolution ==
    /\ pc = "complete"
    /\ LET remain_credits == total_credits - inter[1] - union[1]
           Left(c) == ~(c.Name \in inter[2] \/ c.Name \in union[2])
           rest == SelectSeq(candidates, Left)
           bf == BruteForceMeetTotalCredits(time_conflict_graph, rest, <<>>,
                                            0, 1, remain_credits)
       IN  \E a \in Orders(inter[2]) : \E b \in Orders(union[2]) :
             /\ solution' = AssembleSolution(remain_credits, a, b, bf)
             /\ candidates' = IF remain_credits = 0 THEN candidates ELSE rest
    /\ different_solutions' = KeepSolution(different_solutions, solution')
    /\ copy_solutions' = IF CopyInStep
                         THEN CopyKeepSolution(copy_solutions, solution')
                         ELSE copy_solutions
    /\ trial' = trial + 1
    /\ pc' = "trial"
    /\ UNCHANGED <<self_stack, calls>>
    /\ UNCHANGED <<request, total_credits, fields, formats, user_schedules,
                   time_slots, name2credit, time_conflict_graph,
                   field_candidates, format_candidates, stage, inter, union,
                   greedy, result, run, first_result>>

\* select_courses after the trial loop
ReturnSolutions ==
    /\ pc = "trial"
    /\ trial = SelectTrials
    /\ IF Len(different_solutions) = 0
       THEN result' = <<>>
       ELSE \E unique \in Orders(Range(different_solutions)) :
              result' =
                IF Len(unique) = 1 /\ Len(unique[1]) = 0 THEN <<>>
                ELSE [s \in DOMAIN unique |->
                        [k \in DOMAIN unique[s] |->
                            <<unique[s][k], time_slots[unique[s][k]],
                              name2credit[unique[s][k]]>>]]
    /\ pc' = "done"
    /\ UNCHANGED <<copy_solutions, self_stack, calls>>
    /\ UNCHANGED <<request, total_credits, fields, formats, user_schedules,
                   candidates, solution, time_slots, name2credit,
                   time_conflict_graph, field_candidates, format_candidates,
                   different_solutions, trial, stage, inter, union, greedy,
                   run, first_result>>

\* the caller calls clear() and sends the same request again.  clear()
\* does not assign self.time_conflict_graph: the graph of the finished
\* request stays until select_courses builds the next one.  The locals of
\* the finished call are gone
Rerun ==
    /\ pc = "done"
    /\ run = 1
    /\ run' = 2
    /\ first_result' = result
    /\ result' = None
    /\ total_credits' = DefaultTotalCredits
    /\ candidates' = <<>>
    /\ solution' = <<>>
    /\ time_slots' = <<>>
    /\ name2credit' = <<>>
    /\ user_schedules' = <<>>
    /\ formats' = {}
    /\ fields' = {}
    /\ field_candidates' = {}
    /\ format_candidates' = {}
    /\ different_solutions' = <<>>
    /\ copy_solutions' = <<>>
    /\ trial' = 0
    /\ pc' = "idle"
    /\ UNCHANGED <<self_stack, calls>>
    /\ UNCHANGED <<request, time_conflict_graph, stage, inter, union,
                   greedy>>

Next ==
    \/ UpdateRequest
    \/ SelectCoursesRaise
    \/ SelectCoursesPrepare
    \/ BeginTrial
    \/ SearchForPreference
    \/ GreedyTrial
    \/ GreedyReturn
    \/ CompleteSolution
    \/ ReturnSolutions

Spec == Init /\ [][Next]_vars

NextRerun == Next \/ Rerun

\* two requests in a row, over two small pools
RerunPools == {Scenario1Pool, <<CS102, CS104>>}

InitRerun == Init /\ request.raw_candidates \in RerunPools

SpecRerun == InitRerun /\ [][NextRerun]_vars

(***************************************************************************)
(* _has_overlap on its own: the two interval lists are the request, the    *)
(* returned truth value is the result.                                     *)
(***************************************************************************)
MaxTime == 3

MaxSlots == 2

\* the intervals (start, end) with 0 <= start < end <= MaxTime
Intervals == {iv \in (0..MaxTime) \X (0..MaxTime) : iv[1] < iv[2]}

\* the lists of at most MaxSlots intervals
IntervalLists == UNION {[1..n -> Intervals] : n \in 0..MaxSlots}

InitOverlap ==
    /\ request \in [times_a : IntervalLists, times_b : IntervalLists]
    /\ pc = "overlap"
    /\ Constructed

\* one call _has_overlap(times_a, times_b)
CallHasOverlap ==
    /\ pc = "overlap"
    /\ result' = HasOverlap(request.times_a, request.times_b)
    /\ pc' = "returned"
    /\ UNCHANGED <<copy_solutions, self_stack, calls>>
    /\ UNCHANGED <<request, total_credits, fields, formats, user_schedules,
                   candidates, solution, time_slots, name2credit,
                   time_conflict_graph, field_candidates, format_candidates,
                   different_solutions, trial, stage, inter, union, greedy,
                   run, first_result>>

SpecOverlap == InitOverlap /\ [][CallHasOverlap]_vars

(***************************************************************************)
(* Two callers on one picker.  Both have reached line 188 of               *)
(* _select_one_solution with the same arguments and the same results of    *)
(* the preference stages; from there each runs the rest of the function    *)
(* and the backtracking search line by line, and the lines of the two      *)
(* interleave freely: the picker has no lock.  self.solution, self.stack   *)
(* and self.candidates are fields of the picker.  A step is one line that  *)
(* reads or writes a field or a list held by a field, together with the    *)
(* lines after it that touch locals only.                                  *)
(***************************************************************************)
Threads == {1, 2}

\* list[:-1] and list[-1]
Front(list) == SubSeq(list, 1, Len(list) - 1)

Top(list) == list[Len(list)]

\* a request without preferences, one with a preferred field that leaves
\* credits for the backtracking search, and one that leaves none
FieldGapRequest ==
    [raw_candidates |-> <<CS101, CS104>>, total_credits |-> 6,
     fields |-> {AI}, formats |-> {}, user_schedules |-> <<>>]

FieldFullRequest ==
    [raw_candidates |-> <<CS104, CS105>>, total_credits |-> 6,
     fields |-> {AI}, formats |-> {}, user_schedules |-> <<>>]

InterleavedRequests == {Scenario1Request, FieldGapRequest, FieldFullRequest}

\* a reference to a list object.  Lists are changed only through the field
\* that holds them (self.solution.append, self.stack.append and pop), so a
\* reference is either to the list its field holds at present, and reads
\* as that list does, or to a list that no field holds any more, which
\* keeps the value it had when the field was assigned another list
Live == [live |-> TRUE, val |-> <<>>]

Detached(list) == [live |-> FALSE, val |-> list]

Deref(ref, current) == IF ref.live THEN current ELSE ref.val

Detach(ref, current) == IF ref.live THEN Detached(current) ELSE ref

\* the iterator of  for pre in self.stack : a list and the number of
\* elements already yielded; idx = 0 before the loop is entered
NoIter == [ref |-> Detached(<<>>), idx |-> 0]

\* one activation of _brute_force_meet_total_credits: its arguments and
\* the line where it goes on (469, 476: it waits for the call of that line)
Frame(cur_id, cur_credits, at) ==
    [cur_id |-> cur_id, cur_credits |-> cur_credits, at |-> at]

\* a caller at line 188: the line of _select_one_solution where it goes
\* on, the position of its loop of line 202, its activations of the
\* search, the locals of _has_time_conflicts, the list it has returned,
\* and its argument candidates
NewCaller ==
    [phase |-> "run", line |-> "188", k |-> 0, frames |-> <<>>,
     cur_name |-> "", it |-> NoIter, pre |-> 0, out |-> Detached(<<>>),
     candidates |-> candidates]

\* remain_credits
RemainCredits == total_credits - inter[1] - union[1]

\* both callers are in _select_one_solution, before line 188
EnterStageC ==
    /\ pc = "complete"
    /\ calls = <<>>
    /\ calls' = [t \in Threads |-> NewCaller]
    /\ UNCHANGED <<request, pc, total_credits, fields, formats,
                   user_schedules, candidates, solution, time_slots,
                   name2credit, time_conflict_graph, field_candidates,
                   format_candidates, different_solutions, trial, stage,
                   inter, union, greedy, result, run, first_result,
                   copy_solutions, self_stack>>

\* the effect of one step of caller t: its own record and the three
\* fields; newsol, newstk say that self.solution, self.stack is assigned a
\* new list, which detaches the references to the list held before
Apply(t, me, sol, stk, cnd, newsol, newstk) ==
    /\ solution' = sol
    /\ self_stack' = stk
    /\ candidates' = cnd
    /\ calls' = [u \in Threads |->
          LET c == IF u = t THEN me ELSE calls[u]
          IN  [c EXCEPT
                 !.out = IF newsol THEN Detach(@, solution) ELSE @,
                 !.it = [@ EXCEPT !.ref = IF newstk
                                          THEN Detach(@, self_stack)
                                          ELSE @]]]
    /\ UNCHANGED <<request, pc, total_credits, fields, formats,
                   user_schedules, time_slots, name2credit,
                   time_conflict_graph, field_candidates, format_candidates,
                   different_solutions, trial, stage, inter, union, greedy,
                   result, run, first_result, copy_solutions>>

\* an IndexError (an index past the end of self.candidates, a pop from
\* the empty self.stack) leaves through every activation and ends the
\* caller; line keeps the line that raised
Raise(t, at) ==
    Apply(t, [calls[t] EXCEPT !.phase = "raised", !.line = at,
                              !.frames = <<>>, !.cur_name = "",
                              !.it = NoIter, !.pre = 0],
          solution, self_stack, candidates, FALSE, FALSE)

\* the activation on top of frames has returned v: the activations that
\* wait at line 476 return v as well, the one that waits at line 469 goes
\* on at 470 or 475, and _select_one_solution goes on at 212 or 214
RECURSIVE Deliver(_, _)
Deliver(frames, v) ==
    IF frames = <<>>
    THEN [frames |-> <<>>, line |-> IF v THEN "212" ELSE "214"]
    ELSE IF Top(frames).at = "476" THEN Deliver(Front(frames), v)
    ELSE [frames |-> Append(Front(frames),
                            [Top(frames) EXCEPT
                                !.at = IF v THEN "470" ELSE "475"]),
          line |-> "209"]

\* the lines of _select_one_solution from 188 on
SelectOneSolutionLine(t) ==
    /\ t \in DOMAIN calls
    /\ calls[t].phase = "run"
    /\ calls[t].frames = <<>>
    /\ LET me == calls[t]
           Go(line) == [me EXCEPT !.line = line]
           Same(new) == Apply(t, new, solution, self_stack, candidates,
                              FALSE, FALSE)
           Left(j) == me.candidates[j].Name \notin inter[2] \cup union[2]
           rest == {j \in me.k..Len(me.candidates) : Left(j)}
       IN  CASE me.line = "188" ->
                  Same(Go(IF RemainCredits = 0 THEN "191" ELSE "196"))
             [] me.line = "191" ->
                  \E a \in Orders(inter[2]) : \E b \in Orders(union[2]) :
                     Apply(t, Go("192"), a \o b, self_stack, candidates,
                           TRUE, FALSE)
             [] me.line = "196" ->
                  Apply(t, Go("197"), <<>>, self_stack, candidates,
                        TRUE, FALSE)
             [] me.line = "197" ->
                  Apply(t, Go("198"), solution, <<>>, candidates,
                        FALSE, TRUE)
             [] me.line = "198" ->
                  Apply(t, [me EXCEPT !.line = "202", !.k = 1],
                        solution, self_stack, <<>>, FALSE, FALSE)
             [] me.line = "202" ->
                  IF rest = {}
                  THEN Same([me EXCEPT !.line = "209", !.k = 0,
                                !.frames = <<Frame(1, 0, "453")>>])
                  ELSE LET j == CHOOSE m \in rest : \A n \in rest : m <= n
                       IN  Apply(t, [me EXCEPT !.k = j + 1], solution,
                                 self_stack,
                                 Append(candidates, me.candidates[j]),
                                 FALSE, FALSE)
             [] me.line = "212" ->
                  \E a \in Orders(inter[2]) : \E b \in Orders(union[2]) :
                     Apply(t, Go("215"), a \o b \o solution, self_stack,
                           candidates, TRUE, FALSE)
             [] me.line = "214" ->
                  Apply(t, Go("215"), <<>>, self_stack, candidates,
                        TRUE, FALSE)
             [] me.line \in {"192", "215"} ->
                  Same([me EXCEPT !.phase = "returned", !.out = Live])

\* the lines of _brute_force_meet_total_credits; cur_id counts from 1
BruteForceLine(t) ==
    /\ t \in DOMAIN calls
    /\ calls[t].phase = "run"
    /\ calls[t].frames # <<>>
    /\ Top(calls[t].frames).at \in
          {"453", "454", "455", "459", "463", "465", "466", "470", "471",
           "475"}
    /\ LET me == calls[t]
           top == Top(me.frames)
           id == top.cur_id
           InRange == id <= Len(candidates)
           At(at) == [me EXCEPT
                        !.frames = Append(Front(@), [top EXCEPT !.at = at])]
           Call(at, next) ==
               [me EXCEPT !.frames = Append(Append(Front(@),
                                         [top EXCEPT !.at = at]), next)]
           Return(v) ==
               LET d == Deliver(Front(me.frames), v)
               IN  [me EXCEPT !.frames = d.frames, !.line = d.line]
           PopAnd(new) ==
               IF self_stack = <<>> THEN Raise(t, top.at)
               ELSE Apply(t, new, solution, Front(self_stack), candidates,
                          FALSE, FALSE)
           AppendName(at) ==
               IF ~InRange THEN Raise(t, top.at)
               ELSE Apply(t, At(at),
                          Append(solution, candidates[id].Name),
                          self_stack, candidates, FALSE, FALSE)
       IN  CASE top.at = "453" ->
                  Apply(t, At("454"), solution, Append(self_stack, id),
                        candidates, FALSE, FALSE)
             [] top.at = "454" ->
                  Apply(t, At(IF InRange THEN "425" ELSE "455"), solution,
                        self_stack, candidates, FALSE, FALSE)
             [] top.at \in {"455", "459"} -> PopAnd(Return(FALSE))
             [] top.at = "463" ->
                  IF ~InRange THEN Raise(t, top.at)
                  ELSE LET new_credit == top.cur_credits
                                           + candidates[id].Credit
                       IN  Apply(t,
                                 IF new_credit = RemainCredits
                                 THEN At("465")
                                 ELSE Call("469",
                                           Frame(id + 1, new_credit, "453")),
                                 solution, self_stack, candidates,
                                 FALSE, FALSE)
             [] top.at = "465" -> AppendName("466")
             [] top.at = "470" -> AppendName("471")
             [] top.at \in {"466", "471"} -> PopAnd(Return(TRUE))
             [] top.at = "475" ->
                  PopAnd(Call("476", Frame(id + 1, top.cur_credits, "453")))

\* the lines of _has_time_conflicts, called at line 458
HasTimeConflictsLine(t) ==
    /\ t \in DOMAIN calls
    /\ calls[t].phase = "run"
    /\ calls[t].frames # <<>>
    /\ Top(calls[t].frames).at \in {"425", "426", "427"}
    /\ LET me == calls[t]
           top == Top(me.frames)
           id == top.cur_id
           At(at) == [me EXCEPT
                        !.frames = Append(Front(@), [top EXCEPT !.at = at])]
           \* _has_time_conflicts returns: line 459 on True, 463 on False
           Exit(v) == [At(IF v THEN "459" ELSE "463") EXCEPT
                          !.cur_name = "", !.it = NoIter, !.pre = 0]
           Same(new) == Apply(t, new, solution, self_stack, candidates,
                              FALSE, FALSE)
           ref == IF me.it.idx = 0 THEN Live ELSE me.it.ref
           list == Deref(ref, self_stack)
       IN  CASE top.at = "425" ->
                  IF id > Len(candidates) THEN Raise(t, top.at)
                  ELSE Same([At("426") EXCEPT
                                !.cur_name = candidates[id].Name])
             [] top.at = "426" ->
                  IF me.it.idx + 1 > Len(list) THEN Same(Exit(FALSE))
                  ELSE Same([At("427") EXCEPT
                                !.pre = list[me.it.idx + 1],
                                !.it = [ref |-> ref, idx |-> me.it.idx + 1]])
             [] top.at = "427" ->
                  IF me.pre > Len(candidates) THEN Raise(t, top.at)
                  ELSE LET pre_name == candidates[me.pre].Name
                           name_bind == NameBind(pre_name, me.cur_name)
                       IN  IF pre_name = me.cur_name THEN Same(At("426"))
                           ELSE IF name_bind \notin
                                     DOMAIN time_conflict_graph
                           THEN Same(Exit(FALSE))
                           ELSE IF time_conflict_graph[name_bind]
                           THEN Same(Exit(TRUE))
                           ELSE Same(At("426"))

InitInterleaved == Init /\ request \in InterleavedRequests

NextInterleaved ==
    \/ UpdateRequest
    \/ SelectCoursesPrepare
    \/ BeginTrial
    \/ SearchForPreference
    \/ GreedyTrial
    \/ GreedyReturn
    \/ EnterStageC
    \/ \E t \in Threads : SelectOneSolutionLine(t)
    \/ \E t \in Threads : BruteForceLine(t)
    \/ \E t \in Threads : HasTimeConflictsLine(t)

SpecInterleaved == InitInterleaved /\ [][NextInterleaved]_vars

(***************************************************************************)
(* _random_greedy_select called on its own: the picker is prepared with    *)
(* the candidates, and the whole list and a target are handed to the       *)
(* greedy selection.                                                       *)
(***************************************************************************)
GreedyTargets == {0, 3, 5, 6}

GreedyPools ==
    {<<>>, Scenario1Pool, ChainPool, PlusPool, <<CS104, CS107, CS105>>,
     SkipBreakPool}

InitGreedy ==
    /\ request \in [raw_candidates : GreedyPools,
                    total_credits : GreedyTargets, fields : {{}},
                    formats : {{}}, user_schedules : {<<>>}]
    /\ pc = "idle"
    /\ Constructed

\* the call _random_greedy_select(self.candidates, self.total_credits)
CallRandomGreedySelect ==
    /\ pc = "trial"
    /\ trial = 0
    /\ greedy' = [candidates |-> candidates,
                  target_credits |-> total_credits, i |-> 0,
                  best_credits |-> 0, best_solutions |-> <<>>]
    /\ pc' = "greedy"
    /\ UNCHANGED <<copy_solutions, self_stack, calls>>
    /\ UNCHANGED <<request, total_credits, fields, formats, user_schedules,
                   candidates, solution, time_slots, name2credit,
                   time_conflict_graph, field_candidates, format_candidates,
                   different_solutions, trial, stage, inter, union, result,
                   run, first_result>>

\* the return of _random_greedy_select to that caller
ReturnRandomGreedySelect ==
    /\ pc = "greedy"
    /\ greedy.i = GreedyTrials
    /\ result' = <<greedy.best_credits,
                   {greedy.best_solutions[k].Name :
                       k \in DOMAIN greedy.best_solutions}>>
    /\ pc' = "returned"
    /\ UNCHANGED <<copy_solutions, self_stack, calls>>
    /\ UNCHANGED <<request, total_credits, fields, formats, user_schedules,
                   candidates, solution, time_slots, name2credit,
                   time_conflict_graph, field_candidates, format_candidates,
                   different_solutions, trial, stage, inter, union, greedy,
                   run, first_result>>

NextGreedy ==
    \/ UpdateRequest
    \/ SelectCoursesPrepare
    \/ CallRandomGreedySelect
    \/ GreedyTrial
    \/ ReturnRandomGreedySelect

SpecGreedy == InitGreedy /\ [][NextGreedy]_vars

(***************************************************************************)
(* The conflict decision on two entries as the caller writes them: the     *)
(* entries of a candidate "A" and of a candidate "B" are converted by      *)
(* _change_time_format and compared by _has_overlap.                       *)
(***************************************************************************)
\* clock times of one day, the first and the last minute included
ClockSamples == {<<0, 0>>, <<9, 0>>, <<12, 30>>, <<23, 59>>}

\* one entry on any day of the week between any two of the clock times
UnitEntries ==
    {<<Entry(d, st, en)>> :
        d \in Range(Days), st \in ClockSamples, en \in ClockSamples}

InitUnits ==
    /\ request \in [dates_a : UnitEntries, dates_b : UnitEntries]
    /\ pc = "units"
    /\ Constructed

\* _has_overlap on the two converted entries; each conversion also
\* records the entries of its candidate in self.time_slots
CallConflictDecision ==
    /\ pc = "units"
    /\ result' = HasOverlap(ChangeTimeFormat(request.dates_a),
                            ChangeTimeFormat(request.dates_b))
    /\ time_slots' = [n \in {"A", "B"} |->
                         IF n = "A" THEN TimeSlotsOf(request.dates_a)
                         ELSE TimeSlotsOf(request.dates_b)]
    /\ pc' = "decided"
    /\ UNCHANGED <<copy_solutions, self_stack, calls>>
    /\ UNCHANGED <<request, total_credits, fields, formats, user_schedules,
                   candidates, solution, name2credit,
                   time_conflict_graph, field_candidates, format_candidates,
                   different_solutions, trial, stage, inter, union, greedy,
                   run, first_result>>

SpecUnits == InitUnits /\ [][CallConflictDecision]_vars

(***************************************************************************)
(* Vocabulary of the properties.  Times are taken on one axis of minutes   *)
(* since Monday 00:00, read from the request as the caller wrote it.       *)
(***************************************************************************)
RawNames == {request.raw_candidates[i].Name :
                i \in DOMAIN request.raw_candidates}

RawByName(n) == request.raw_candidates[
    CHOOSE i \in DOMAIN request.raw_candidates :
        request.raw_candidates[i].Name = n]

DayIndex(token) == (CHOOSE i \in DOMAIN Days : Days[i] = Lower(token)) - 1

WeekMinute(token, clock) == DayIndex(token) * 1440 + clock[1] * 60 + clock[2]

\* two lists of entries share more than zero minutes of the week
Overlaps(dates_a, dates_b) ==
    \E i \in DOMAIN dates_a : \E j \in DOMAIN dates_b :
        Min(WeekMinute(dates_a[i].day, dates_a[i].en),
            WeekMinute(dates_b[j].day, dates_b[j].en))
        > Max(WeekMinute(dates_a[i].day, dates_a[i].st),
              WeekMinute(dates_b[j].day, dates_b[j].st))

Conflict(a, b) == Overlaps(RawByName(a).Dates, RawByName(b).Dates)

Busy(n) == Overlaps(RawByName(n).Dates, request.user_schedules)

\* the names of the courses that survive the busy schedule
FreeNames == {n \in RawNames : ~Busy(n)}

\* names of one returned solution, a list of (name, time, credit)
NamesIn(sol) == {sol[k][1] : k \in DOMAIN sol}

RECURSIVE CreditSum(_)
CreditSum(sol) ==
    IF Len(sol) = 0 THEN 0
    ELSE RawByName(Head(sol)[1]).Credit + CreditSum(Tail(sol))

RECURSIVE SetCredit(_)
SetCredit(S) ==
    IF S = {} THEN 0
    ELSE LET n == CHOOSE m \in S : TRUE
         IN  RawByName(n).Credit + SetCredit(S \ {n})

Returned == pc = "done"

\* two characters are the same letter in either case, or the same character
SameLetter(a, b) ==
    \/ a = b
    \/ \E i \in DOMAIN UpperLetters :
          {a, b} = {UpperLetters[i], LowerLetters[i]}

\* text holds term as a run of characters, case ignored on both sides
HoldsTerm(text, term) ==
    \E k \in 0..(Len(text) - Len(term)) :
        \A j \in 1..Len(term) : SameLetter(text[k + j], term[j])

\* an entry as the caller wrote it lacks the separator of day and
\* duration, names no day of the week, or has a clock that is not hh:mm
Malformed(date) ==
    \/ "day" \notin DOMAIN date
    \/ \A i \in DOMAIN Days : Lower(Strip(date.day)) # Days[i]
    \/ Len(date.st) # 2
    \/ Len(date.en) # 2

\* some candidate's Dates or the busy schedule holds a malformed entry
MalformedRequest ==
    \/ \E i \in DOMAIN request.raw_candidates :
          \E k \in DOMAIN request.raw_candidates[i].Dates :
              Malformed(request.raw_candidates[i].Dates[k])
    \/ \E k \in DOMAIN request.user_schedules :
          Malformed(request.user_schedules[k])

Prepared == pc \notin {"idle", "configured", "error"}

(***************************************************************************)
(* Properties                                                              *)
(***************************************************************************)
\* C1: the credits of the courses of every returned solution sum exactly
\* to the requested total; no solution with another sum is returned.
ExactSum ==
    Returned => \A s \in DOMAIN result :
                    CreditSum(result[s]) = request.total_credits

\* a request has returned a solution made of several courses
ExactSumReached ==
    Returned /\ \E s \in DOMAIN result : Len(result[s]) >= 2

\* C2: in every returned solution, no two distinct courses overlap in
\* time, whichever stage chose them.
ConflictFreedom ==
    Returned => \A s \in DOMAIN result :
                    \A a \in NamesIn(result[s]) :
                        \A b \in NamesIn(result[s]) :
                            a # b => ~Conflict(a, b)

\* C3: every candidate that overlaps the busy schedule is removed before
\* the graph is built and before any trial runs, no other candidate is
\* removed, and no removed course appears in a returned solution.
BusyExclusion ==
    /\ (pc = "trial" /\ trial = 0) =>
          /\ {candidates[i].Name : i \in DOMAIN candidates} = FreeNames
          /\ DOMAIN time_conflict_graph =
                {NameBind(p[1], p[2]) : p \in
                    {q \in FreeNames \X FreeNames : q[1] # q[2]}}
    /\ pc \in {"trial", "search", "complete"} =>
          \A i \in DOMAIN candidates : ~Busy(candidates[i].Name)
    /\ Returned => \A s \in DOMAIN result :
                      \A n \in NamesIn(result[s]) : ~Busy(n)
    /\ (Returned /\ Len(request.user_schedules) > 0) =>
          \A s \in DOMAIN result :
              NamesIn(result[s]) \cap {"CS101", "CS103"} = {}

\* with Monday 09:00-10:30 busy and CS101 in the pool, a solution is returned
BusyExclusionReached ==
    /\ Returned
    /\ Len(request.user_schedules) > 0
    /\ "CS101" \in RawNames
    /\ Len(result) > 0

\* C4: select_courses returns between 0 and 3 solutions, none of them
\* empty; a trial without a solution adds nothing to the result.
SolutionCount ==
    /\ Len(different_solutions) <= trial
    /\ \A k \in DOMAIN different_solutions :
          Len(different_solutions[k]) > 0
    /\ Returned =>
          /\ Len(result) \in 0..SelectTrials
          /\ \A s \in DOMAIN result : Len(result[s]) > 0

\* a request has returned solutions although one of its trials failed
SolutionCountReached ==
    /\ Returned
    /\ Len(result) > 0
    /\ Len(different_solutions) < SelectTrials

\* C5: no two returned solutions select the same set of course names.
DistinctNameSets ==
    Returned => \A s \in DOMAIN result : \A t \in DOMAIN result :
                    s # t => NamesIn(result[s]) # NamesIn(result[t])

\* no conflict-free set of the courses left by the busy schedule has
\* credits that sum to the target
Infeasible ==
    \A S \in SUBSET FreeNames :
        \/ SetCredit(S) # request.total_credits
        \/ \E a \in S : \E b \in S : a # b /\ Conflict(a, b)

\* C6: when no conflict-free subset of the remaining candidates sums
\* exactly to the target, select_courses returns the empty list.
EmptyWhenInfeasible ==
    (Returned /\ Infeasible) => Len(result) = 0

\* C7: the conflict graph is symmetric: the value found for (a, b) is the
\* value found for (b, a), for every two distinct candidate names.
GraphSymmetry ==
    Prepared => \A a \in FreeNames : \A b \in FreeNames :
                    a # b => time_conflict_graph[NameBind(a, b)]
                             = time_conflict_graph[NameBind(b, a)]

\* C8: two requests with identical candidates, target, preferences and
\* busy schedule return the same set of solutions.
Determinism ==
    (Returned /\ run = 2) =>
        {NamesIn(result[s]) : s \in DOMAIN result}
        = {NamesIn(first_result[s]) : s \in DOMAIN first_result}

\* C9: Scenario 1 always returns {CS101, CS102} or {CS103}, and never a
\* solution that holds both CS101 and CS103.
Scenario1 ==
    (Returned /\ request = Scenario1Request) =>
        /\ \E s \in DOMAIN result :
              NamesIn(result[s]) \in {{"CS101", "CS102"}, {"CS103"}}
        /\ \A s \in DOMAIN result :
              ~({"CS101", "CS103"} \subseteq NamesIn(result[s]))

\* Scenario 1 has returned three solutions
Scenario1Reached ==
    Returned /\ request = Scenario1Request /\ Len(result) = SelectTrials

\* C10: Scenario 3 always returns the two courses of the preferred field,
\* {CS104, CS105}.
Scenario3 ==
    (Returned /\ request = Scenario3Request) =>
        \E s \in DOMAIN result : NamesIn(result[s]) = {"CS104", "CS105"}

\* Scenario 3 has returned
Scenario3Reached ==
    Returned /\ request = Scenario3Request /\ Len(result) > 0

\* C11: in one pass of _select_one_solution whose remainder is not zero,
\* a failed backtracking call makes the pass yield the empty solution, so
\* no course of the two preference stages is returned; a successful call
\* makes the pass yield exactly the names of the first stage, of the
\* second stage and of the backtracking call together.
PassOutcome ==
    [][pc = "complete" =>
        LET remain_credits == total_credits - inter[1] - union[1]
            Left(c) == c.Name \notin inter[2] \cup union[2]
            bf == BruteForceMeetTotalCredits(
                      time_conflict_graph, SelectSeq(candidates, Left),
                      <<>>, 0, 1, remain_credits)
        IN  remain_credits # 0 =>
              /\ ~bf.status => solution' = <<>>
              /\ bf.status =>
                    /\ Range(solution')
                         = inter[2] \cup union[2] \cup Range(bf.solution)
                    /\ Len(solution')
                         = Cardinality(inter[2]) + Cardinality(union[2])
                           + Len(bf.solution)]_vars

\* a pass has ended whose preference stages chose courses and whose
\* backtracking call failed
PassOutcomeReached ==
    /\ pc = "trial"
    /\ trial >= 1
    /\ inter[2] \cup union[2] # {}
    /\ total_credits - inter[1] - union[1] # 0
    /\ solution = <<>>

\* C12: every well-formed entry "<day>. hh:mm-hh:mm" of a candidate, in
\* any letter case, is turned by _change_time_format into the interval
\* (day_index*1440 + hh1*60 + mm1, day_index*1440 + hh2*60 + mm2) of
\* minutes of the week, Monday having index 0.
MinuteIntervals ==
    Prepared =>
        \A i \in DOMAIN request.raw_candidates :
            LET c == request.raw_candidates[i]
            IN  \A k \in DOMAIN c.Dates :
                  /\ time_slots[c.Name][k][3]
                       = WeekMinute(c.Dates[k].day, c.Dates[k].st)
                  /\ time_slots[c.Name][k][4]
                       = WeekMinute(c.Dates[k].day, c.Dates[k].en)

\* C13: when some candidate's Dates or the busy schedule holds an entry
\* without the day/duration separator, with an unknown day token or with
\* an unparsable clock, select_courses ends with an error that reaches the
\* caller: it returns no list of solutions, runs no trial on partial
\* intervals and does not drop the entry silently.
ErrorPropagated ==
    MalformedRequest =>
        /\ pc \in {"idle", "configured", "error"}
        /\ different_solutions = <<>>
        /\ result = None

\* select_courses has raised after it had parsed some entries
ErrorPropagatedReached ==
    /\ pc = "error"
    /\ MalformedRequest
    /\ time_slots # <<>>

\* C14: _filter_courses(slot, terms) returns exactly the names of the
\* candidates left by the busy filter whose slot value contains at least
\* one of the terms, case ignored on both sides, and the empty set when
\* there is no term.
PreferenceFilter ==
    Prepared =>
        /\ field_candidates =
              {n \in FreeNames : \E t \in request.fields :
                                    HoldsTerm(RawByName(n).Field, t)}
        /\ format_candidates =
              {n \in FreeNames : \E t \in request.formats :
                                    HoldsTerm(RawByName(n).Format, t)}
        /\ request.fields = {} => field_candidates = {}
        /\ request.formats = {} => format_candidates = {}

\* the field filter has matched a value written in another case than the
\* term and has left out a matching course that the busy filter removed
PreferenceFilterReached ==
    /\ Prepared
    /\ \E n \in field_candidates : \E t \in request.fields :
          ~Contains(RawByName(n).Field, t)
    /\ \E n \in RawNames \ FreeNames : \E t \in request.fields :
          HoldsTerm(RawByName(n).Field, t)

\* C15: _has_overlap(A, B) is true exactly when some interval of A and
\* some interval of B have min(ends) - max(starts) > 0; intervals that
\* only touch, one ending where the other starts, do not overlap, and the
\* answer is false when A or B is empty.
OverlapRule ==
    pc = "returned" =>
        LET A == request.times_a
            B == request.times_b
        IN  /\ result <=>
                  \E i \in DOMAIN A : \E j \in DOMAIN B :
                      Min(A[i][2], B[j][2]) - Max(A[i][1], B[j][1]) > 0
            /\ result <=>
                  \E i \in DOMAIN A : \E j \in DOMAIN B :
                      \E t \in 0..MaxTime :
                          /\ A[i][1] <= t /\ t < A[i][2]
                          /\ B[j][1] <= t /\ t < B[j][2]
            /\ (\A i \in DOMAIN A : \A j \in DOMAIN B :
                    A[i][2] <= B[j][1] \/ B[j][2] <= A[i][1]) => ~result
            /\ (A = <<>> \/ B = <<>>) => ~result

\* the call has answered false for two intervals that touch
OverlapRuleReached ==
    /\ pc = "returned"
    /\ ~result
    /\ \E i \in DOMAIN request.times_a : \E j \in DOMAIN request.times_b :
          request.times_a[i][2] = request.times_b[j][1]

\* C16: for every ordered pair of distinct candidate names, names that
\* contain '+' included, the value the two searches look up in the graph
\* is the overlap of the two courses' intervals, and two different pairs
\* never share one entry of the graph.
GraphExact ==
    Prepared =>
        LET Pairs == {p \in FreeNames \X FreeNames : p[1] # p[2]}
        IN  /\ \A p \in Pairs :
                  time_conflict_graph[NameBind(p[1], p[2])]
                  = Conflict(p[1], p[2])
            /\ \A p \in Pairs : \A q \in Pairs :
                  p # q => NameBind(p[1], p[2]) # NameBind(q[1], q[2])

\* the positions of S in rising order
RECURSIVE Ascending(_)
Ascending(S) ==
    IF S = {} THEN <<>>
    ELSE LET m == CHOOSE k \in S : \A j \in S : j <= k
         IN  Append(Ascending(S \ {m}), m)

\* the candidates not chosen by the two preference stages, in the order
\* of the running trial: the list the backtracking call searches
Remaining ==
    LET Left(c) == c.Name \notin inter[2] \cup union[2]
    IN  SelectSeq(candidates, Left)

\* the conflict graph records a conflict of the course at position k of
\* list with the later course at position cur
Recorded(list, k, cur) ==
    time_conflict_graph[NameBind(list[k].Name, list[cur].Name)]

\* a path of accepted positions: none is recorded as conflicting with an
\* earlier one
Accepted(list, S) ==
    \A a \in S : \A b \in S : a < b => ~Recorded(list, a, b)

\* the credits of the courses at the positions S of list
RECURSIVE PositionCredit(_, _)
PositionCredit(list, S) ==
    IF S = {} THEN 0
    ELSE LET k == CHOOSE j \in S : TRUE
         IN  list[k].Credit + PositionCredit(list, S \ {k})

\* the residual target of the pass that is running or has just ended
Residual == total_credits - inter[1] - union[1]

\* a pass of _select_one_solution has ended that ran the backtracking
\* call; candidates is the list the call searched
SearchEnded == pc = "trial" /\ trial >= 1 /\ Residual # 0

\* C17: the backtracking search is exhaustive: it reports failure only
\* when no pairwise conflict-free subset of its candidate list has
\* credits that sum exactly to the target, and succeeds whenever such a
\* subset exists.
ExhaustiveSearch ==
    (SearchEnded /\ solution = <<>>) =>
        ~\E S \in SUBSET {candidates[i].Name : i \in DOMAIN candidates} :
            /\ \A a \in S : \A b \in S : a # b => ~Conflict(a, b)
            /\ SetCredit(S) = Residual

\* C18: in the backtracking search, when the course at the current
\* position conflicts, by the conflict graph, with a course already
\* accepted on the path, the call for that position fails at once: it
\* neither takes the course nor goes on without it.
PruneOnConflict ==
    (pc = "complete" /\ Residual # 0) =>
        \A S \in SUBSET DOMAIN Remaining : \A cur \in DOMAIN Remaining :
            ( /\ \A k \in S : k < cur
              /\ Accepted(Remaining, S)
              /\ \E k \in S : Recorded(Remaining, k, cur) )
            => BruteForceMeetTotalCredits(
                   time_conflict_graph, Remaining, Ascending(S),
                   PositionCredit(Remaining, S), cur, Residual)
               = [status |-> FALSE, solution |-> <<>>]

\* the backtracking call is about to run on a list where a course
\* conflicts with an accepted one and going on without it would succeed
PruneOnConflictReached ==
    /\ pc = "complete"
    /\ Residual # 0
    /\ \E S \in SUBSET DOMAIN Remaining : \E cur \in DOMAIN Remaining :
          /\ \A k \in S : k < cur
          /\ Accepted(Remaining, S)
          /\ \E k \in S : Recorded(Remaining, k, cur)
          /\ BruteForceMeetTotalCredits(
                 time_conflict_graph, Remaining, Ascending(S),
                 PositionCredit(Remaining, S), cur + 1, Residual).status

\* the names the backtracking call of the ended pass has appended
FoundNames ==
    SubSeq(solution, Cardinality(inter[2]) + Cardinality(union[2]) + 1,
           Len(solution))

\* the positions of the names of FoundNames in the searched list
FoundPositions ==
    {i \in DOMAIN candidates : candidates[i].Name \in Range(FoundNames)}

\* the depth-first search can arrive at exactly the positions T: their
\* credits meet the target and no position up to the last of T conflicts
\* with an earlier position of T
Arrivable(T) ==
    /\ T # {}
    /\ PositionCredit(candidates, T) = Residual
    /\ \A cur \in DOMAIN candidates :
          (\E k \in T : cur <= k) =>
              ~\E k \in T : k < cur /\ Conflict(candidates[k].Name,
                                                 candidates[cur].Name)

\* T comes before U when taking a course is tried before leaving it out
TriedBefore(T, U) ==
    /\ T # U
    /\ LET D == (T \ U) \cup (U \ T)
       IN  (CHOOSE m \in D : \A j \in D : m <= j) \in T

\* C19: whenever the backtracking search succeeds, the names it has
\* appended are distinct courses of its candidate list, free of pairwise
\* conflicts, with credits that sum exactly to the residual target; taking
\* a course is tried before leaving it out, so the subset is the first one
\* the depth-first order arrives at.
FirstFound ==
    (SearchEnded /\ solution # <<>>) =>
        /\ Cardinality(Range(FoundNames)) = Len(FoundNames)
        /\ Cardinality(FoundPositions) = Len(FoundNames)
        /\ \A a \in Range(FoundNames) : \A b \in Range(FoundNames) :
              a # b => ~Conflict(a, b)
        /\ PositionCredit(candidates, FoundPositions) = Residual
        /\ Arrivable(FoundPositions)
        /\ \A T \in SUBSET DOMAIN candidates :
              Arrivable(T) => T = FoundPositions
                              \/ TriedBefore(FoundPositions, T)

\* the first trial of a greedy selection has ended: greedy.candidates is
\* its shuffled order and greedy.best_solutions what it accepted
FirstGreedyTrialEnded == pc = "greedy" /\ greedy.i = 1

\* the positions before k that the first greedy trial accepted
AcceptedBefore(k) ==
    {j \in 1..(k - 1) :
        \E a \in DOMAIN greedy.best_solutions :
            greedy.best_solutions[a].Name = greedy.candidates[j].Name}

\* the course at position k conflicts, by the conflict graph, with a
\* course the trial accepted before it
ClashesWithAccepted(k) ==
    \E j \in AcceptedBefore(k) : Recorded(greedy.candidates, j, k)

\* C20: in every trial of the greedy selector a course is skipped for a
\* time conflict exactly when it conflicts with a course already accepted
\* in that trial; a course that conflicts only with earlier courses that
\* were skipped themselves, and whose credit still fits under the target,
\* is accepted.
GreedySkipsOnAccepted ==
    FirstGreedyTrialEnded =>
        \A k \in DOMAIN greedy.candidates :
            /\ k \in AcceptedBefore(k + 1) => ~ClashesWithAccepted(k)
            /\ ( /\ ~ClashesWithAccepted(k)
                 /\ PositionCredit(greedy.candidates, AcceptedBefore(k))
                      + greedy.candidates[k].Credit <= greedy.target_credits
                 /\ \A j \in 1..(k - 1) :
                       j \in AcceptedBefore(k) \/ ClashesWithAccepted(j) )
               => k \in AcceptedBefore(k + 1)

\* the first greedy trial has accepted the course at position k
AcceptedAt(k) == k \in AcceptedBefore(k + 1)

\* the course at position k passes the conflict test of the trial: the
\* graph records no conflict with a course at an earlier position
PassesConflictTest(k) ==
    \A j \in 1..(k - 1) : ~Recorded(greedy.candidates, j, k)

\* the course at position k would raise the running sum above the target
Unaffordable(k) ==
    PositionCredit(greedy.candidates, AcceptedBefore(k))
    + greedy.candidates[k].Credit > greedy.target_credits

\* what the loop does (lines 97-104): a trial ends at the first course
\* that passes the conflict test and does not fit, and no course later
\* in the shuffled order is accepted
GreedyBreak ==
    FirstGreedyTrialEnded =>
        \A k \in DOMAIN greedy.candidates :
            (PassesConflictTest(k) /\ Unaffordable(k)) =>
                \A m \in DOMAIN greedy.candidates : m >= k => ~AcceptedAt(m)

\* a trial has ended at a course that does not fit although a later
\* course passes the conflict test and fits
GreedyBreakReached ==
    /\ FirstGreedyTrialEnded
    /\ \E k \in DOMAIN greedy.candidates :
          /\ PassesConflictTest(k) /\ Unaffordable(k)
          /\ \E m \in DOMAIN greedy.candidates :
                /\ m > k
                /\ PassesConflictTest(m)
                /\ ~Unaffordable(m)

\* C21: a greedy trial ends at the first non-conflicting course, that is
\* a course in conflict with no course already accepted in the trial,
\* whose credit would raise the running sum above the target: no course
\* later in the shuffled order is accepted in that trial, even when a
\* later course would still fit under the target.
GreedyBreakOnAccepted ==
    FirstGreedyTrialEnded =>
        \A k \in DOMAIN greedy.candidates :
            (~ClashesWithAccepted(k) /\ Unaffordable(k)) =>
                \A m \in DOMAIN greedy.candidates : m >= k => ~AcceptedAt(m)

\* the names of a list of courses
CourseNames(list) == {list[k].Name : k \in DOMAIN list}

\* C22: _random_greedy_select runs exactly 10 trials and returns the
\* credits and names of the trial with the highest sum; of several trials
\* with that sum the earliest is returned, and when every trial achieves
\* 0, an empty candidate list included, it returns (0, empty set).
BestOfTenTrials ==
    [][ /\ (pc # "greedy" /\ pc' = "greedy") =>
              /\ greedy'.i = 0
              /\ greedy'.best_credits = 0
              /\ greedy'.best_solutions = <<>>
        /\ (pc = "greedy" /\ pc' = "greedy") =>
              LET ran == GreedyScan(time_conflict_graph, greedy'.candidates,
                                    1, 0, <<>>, greedy.target_credits)
              IN  /\ greedy'.i = greedy.i + 1
                  /\ greedy'.best_credits = Max(greedy.best_credits, ran[1])
                  /\ ran[1] > greedy.best_credits =>
                        greedy'.best_solutions = ran[2]
                  /\ ran[1] <= greedy.best_credits =>
                        greedy'.best_solutions = greedy.best_solutions
        /\ (pc = "greedy" /\ pc' # "greedy") =>
              LET returned == IF stage = "A" THEN inter' ELSE union'
              IN  /\ greedy.i = 10
                  /\ returned = <<greedy.best_credits,
                                  CourseNames(greedy.best_solutions)>>
                  /\ greedy.best_credits = 0 => returned = <<0, {}>>
      ]_vars

\* a later trial has reached the best sum with other courses and the
\* earlier trial has been kept
BestOfTenTrialsReached ==
    /\ pc = "greedy"
    /\ greedy.i >= 2
    /\ greedy.best_credits > 0
    /\ LET ran == GreedyScan(time_conflict_graph, greedy.candidates, 1, 0,
                             <<>>, greedy.target_credits)
       IN  /\ ran[1] = greedy.best_credits
           /\ CourseNames(ran[2]) # CourseNames(greedy.best_solutions)

\* a greedy selection has run its trials on an empty candidate list
EmptyGreedyReached ==
    pc = "greedy" /\ greedy.i = 10 /\ greedy.candidates = <<>>

\* 0.5 * n rounded to a whole number, a half going to the even neighbour
\* or upwards
HalfRounded(n) ==
    IF n % 2 = 0 THEN {n \div 2}
    ELSE {(n \div 2) + 1,
          IF (n \div 2) % 2 = 0 THEN n \div 2 ELSE (n \div 2) + 1}

\* C23: the credit target handed to the greedy selection of Stage A is
\* max(3, round(0.5 * targetCredits)), and the one handed to Stage B is
\* max(0, targetCredits - interCredits).
StageTargetsRounded ==
    pc = "greedy" =>
        /\ stage = "A" =>
              \E h \in HalfRounded(request.total_credits) :
                  greedy.target_credits = Max(3, h)
        /\ stage = "B" =>
              greedy.target_credits
              = Max(0, request.total_credits - inter[1])

\* C23, amended: the credit target handed to the greedy selection of
\* Stage A is max(3, floor(0.5 * targetCredits)), the half being cut off
\* and not rounded, and the one handed to Stage B is
\* max(0, targetCredits - interCredits).
StageTargetsTruncated ==
    pc = "greedy" =>
        /\ stage = "A" =>
              /\ 2 * greedy.target_credits <= Max(6, request.total_credits)
              /\ 2 * greedy.target_credits + 2
                   > Max(6, request.total_credits)
        /\ stage = "B" =>
              greedy.target_credits
              = Max(0, request.total_credits - inter[1])

\* Stage A runs its greedy selection for a target whose half is not whole
\* and above 3
StageTargetsTruncatedReached ==
    /\ pc = "greedy"
    /\ stage = "A"
    /\ request.total_credits % 2 = 1
    /\ request.total_credits > 6

\* the list that a caller has returned, as it reads now
OutOf(t) == Deref(calls[t].out, solution)

\* what _select_one_solution returns from line 188 on, for the argument
\* cands, when no other search runs on the picker
AloneSolutions(cands) ==
    LET Left(c) == ~(c.Name \in inter[2] \/ c.Name \in union[2])
        bf == BruteForceMeetTotalCredits(time_conflict_graph,
                                         SelectSeq(cands, Left), <<>>, 0, 1,
                                         RemainCredits)
    IN  {AssembleSolution(RemainCredits, a, b, bf) :
            a \in Orders(inter[2]), b \in Orders(union[2])}

\* a caller that returns while the other one has not left line 188
\* returns what the backtracking call computes in one piece
SearchAloneAgrees ==
    \A t \in DOMAIN calls :
        (/\ calls[t].phase = "returned"
         /\ \A u \in Threads \ {t} : calls[u].line = "188")
            => OutOf(t) \in AloneSolutions(calls[t].candidates)

SearchAloneReturned ==
    \E t \in DOMAIN calls :
        /\ calls[t].phase = "returned"
        /\ \A u \in Threads \ {t} : calls[u].line = "188"
        /\ Len(OutOf(t)) = 2

\* C24: the stack and the accumulated solution of a backtracking search
\* belong to the call, so that each of two interleaved searches on one
\* picker ends normally and returns what it returns when it runs alone
SearchesIndependent ==
    \A t \in DOMAIN calls :
        /\ calls[t].phase # "raised"
        /\ calls[t].phase = "returned"
              => OutOf(t) \in AloneSolutions(calls[t].candidates)

\* the keys that the conflict tests can look up in a list: every ordered
\* pair of two different names
PairKeys(cands) ==
    {NameBind(cands[p[1]].Name, cands[p[2]].Name) :
        p \in {q \in (DOMAIN cands) \X (DOMAIN cands) :
                  cands[q[1]].Name # cands[q[2]].Name}}

\* C25: on a pool of unique names every key that the greedy and the
\* backtracking conflict tests look up, in any of the three trials, is a
\* key of the graph, so the 'key not found' branch is never taken
LookupKeysPresent ==
    Prepared =>
        /\ PairKeys(candidates) \subseteq DOMAIN time_conflict_graph
        /\ pc = "greedy" =>
              PairKeys(greedy.candidates) \subseteq DOMAIN time_conflict_graph

\* the third trial has ended, and each trial has found two courses of a
\* pool of three by backtracking
LookupKeysPresentReached ==
    /\ pc = "trial"
    /\ trial = SelectTrials
    /\ Len(candidates) >= 3
    /\ inter[2] = {} /\ union[2] = {}
    /\ Len(different_solutions) = SelectTrials
    /\ \A s \in DOMAIN different_solutions : Len(different_solutions[s]) = 2

\* the lists of course names in the value returned by select_courses
ResultNames ==
    {[k \in DOMAIN result[s] |-> result[s][k][1]] : s \in DOMAIN result}

\* C26: the two picker classes are one engine: on the same candidates,
\* target, preferences, busy schedule and shuffles, select_courses of
\* both returns the same collection of lists of course names
SameEngine ==
    (pc = "done" /\ CopyInStep)
        => ResultNames = CopySelectCourses(copy_solutions)

\* C27: every one of the three trials starts from the same pool, the
\* candidates that survived the busy filtering, only in another order;
\* no trial removes a course from the pool, one that reaches the
\* backtracking stage included
TrialPoolIntact ==
    pc \in {"trial", "search", "greedy", "complete"}
        => CourseNames(candidates) = FreeNames

\* C28: for every positive target and every pool whose courses have at
\* most the target's credits each, the two preference stages together
\* take at most the target: the credits that remain for the backtracking
\* stage are never negative
RemainingNonNegative == pc = "complete" => Residual >= 0

\* the credits of a set of course names of the request
RECURSIVE CreditsOf(_)
CreditsOf(names) ==
    IF names = {} THEN 0
    ELSE LET n == CHOOSE m \in names : TRUE
         IN  RawByName(n).Credit + CreditsOf(names \ {n})

\* C29: for every candidate list and every target >= 0,
\* _random_greedy_select returns (c, N) where N is a set of names of the
\* given candidates, c is the sum of their credits, c <= target, and no
\* two courses of N conflict
GreedyResultSound ==
    pc = "returned" =>
        /\ result[2] \subseteq CourseNames(candidates)
        /\ result[1] = CreditsOf(result[2])
        /\ result[1] <= total_credits
        /\ \A a, b \in result[2] :
              a # b => ~Overlaps(RawByName(a).Dates, RawByName(b).Dates)

\* the same on the candidate lists whose names do not contain '+'
GreedyResultSoundPlain ==
    request.raw_candidates # PlusPool => GreedyResultSound

\* a call that returned two courses
GreedyResultReached == pc = "returned" /\ Cardinality(result[2]) = 2

\* the entries on the axis of minutes, day_index * 1440 + hh * 60 + mm
MinuteAxis(dates) ==
    [i \in DOMAIN dates |->
        <<WeekMinute(dates[i].day, dates[i].st),
          WeekMinute(dates[i].day, dates[i].en)>>]

\* C30: the day offset of 86400 added to clock times in minutes changes
\* no conflict decision: two entries on days mon..sun with clock times
\* 00:00..23:59 overlap under day_index * 86400 + hh * 60 + mm exactly
\* when they overlap under day_index * 1440 + hh * 60 + mm
UnitsAgree ==
    pc = "decided" =>
        (result <=> HasOverlap(MinuteAxis(request.dates_a),
                               MinuteAxis(request.dates_b)))

\* a decision on an evening entry and a morning entry of the next day,
\* and a decision on two entries of one day that overlap
UnitsAgreeReached ==
    /\ pc = "decided"
    /\ DayIndex(request.dates_a[1].day) + 1 = DayIndex(request.dates_b[1].day)
    /\ request.dates_a[1].st = <<12, 30>>
    /\ request.dates_a[1].en = <<23, 59>>
    /\ request.dates_b[1].st = <<0, 0>>
    /\ request.dates_b[1].en = <<9, 0>>
    /\ ~result

UnitsOverlapReached ==
    /\ pc = "decided"
    /\ request.dates_a[1].day = request.dates_b[1].day
    /\ result

\* the requests whose course names do not contain the key delimiter
InitPlain == Init /\ request.raw_candidates # PlusPool

SpecPlain == InitPlain /\ [][Next]_vars

TypeOK ==
    /\ pc \in {"idle", "configured", "error", "trial", "search", "greedy",
                "complete", "done"}
    /\ trial \in 0..SelectTrials
    /\ greedy.i \in 0..GreedyTrials

====
